---- MODULE Spec2Model ----
(***************************************************************************)
(* Model of scripts/autoclip/crop.py: the 9:16 crop planners.              *)
(*                                                                         *)
(* Number representation.  Python floats that carry pixel positions        *)
(* (smoothed_center, target_center, prev_center) are kept in fixed point:  *)
(* one unit is 1/Unit of a pixel, Unit = 2*Resolution, so that every       *)
(* integer and every half-integer pixel position (width / 2) is exact.     *)
(* Products that the float arithmetic rounds are rounded to the nearest    *)
(* unit.  Ratios (fps, smoothing, scale) are exact fractions <<n, d>>      *)
(* with d > 0.  Scores are integers in hundredths (90 is 0.9).             *)
(***************************************************************************)
EXTENDS Integers, Sequences, FiniteSets, TLC

\* ------------------------------------------------------------------ bounds
MaxWidth == 6
MaxHeight == 8
MaxFrames == 7
Resolution == 4
MaxBoxPos == 3
MaxBoxSize == 2
\* The largest frame count a source reports to the Mode Selector.
MaxTotal == 14

\* ------------------------------------------------------- program constants
MIN_FACE_SCORE_PCT == 50
GROUP_FACE_AREA_TENTHS == 6
GROUP_MAX_SPAN_TENTHS == 9
MISSING_FACE_SECONDS == 2
DEFAULT_FPS == 30
BEST_SCORE_INIT == -1000000000
\* max_samples of detect_face_centers
MAX_SAMPLES == 12

\* Optional values: None is the empty tuple, a present value v is <<v>>.
None == <<>>
Some(v) == <<v>>
Unit == 2 * Resolution

\* ------------------------------------------------------------- arithmetic
Min2(a, b) == IF a <= b THEN a ELSE b
Max2(a, b) == IF a >= b THEN a ELSE b
Abs(a) == IF a < 0 THEN -a ELSE a

\* Python int() of the quotient n / d of integers, d > 0: truncation toward 0.
TruncDiv(n, d) == IF n >= 0 THEN n \div d ELSE -((-n) \div d)

\* Least integer >= n / d, d > 0.
CeilDiv(n, d) == -((-n) \div d)

\* Round n / d (d > 0) to the nearest integer, ties to the even integer:
\* Python round() on a float, and the rounding of float products.
RoundHalfEven(n, d) ==
    LET f == n \div d
        r == n - f * d
    IN  IF 2 * r < d THEN f
        ELSE IF 2 * r > d THEN f + 1
        ELSE IF f % 2 = 0 THEN f ELSE f + 1

RECURSIVE GCD(_, _)
GCD(a, b) == IF b = 0 THEN a ELSE GCD(b, a % b)
LCM(a, b) == (a \div GCD(a, b)) * b

\* Fractions <<n, d>>, d > 0.
FracLe(a, b) == a[1] * b[2] <= b[1] * a[2]
FracMin(a, b) == IF FracLe(a, b) THEN a ELSE b
FracMax(a, b) == IF FracLe(a, b) THEN b ELSE a

\* clamp(value, min_value, max_value), crop.py:26
ClampNoUpper(value, min_value, max_value) == Max2(min_value, value)
clamp(value, min_value, max_value) == Max2(min_value, Min2(value, max_value))

\* ------------------------------------------------------------- face boxes
\* FaceBox = <<x, y, w, h, score>>, score in hundredths.
face_area(face) == face[3] * face[4]

\* normalize_one with the width clamped to the frame width, not to the
\* room left of the clamped x.
normalize_one_wide(face, frame_width, frame_height) ==
    IF face[5] < MIN_FACE_SCORE_PCT THEN <<>>
    ELSE LET x == clamp(face[1], 0, frame_width - 1)
             y == clamp(face[2], 0, frame_height - 1)
             w == clamp(face[3], 1, frame_width)
             h == clamp(face[4], 1, frame_height - y)
         IN  IF 1000 * (w * h) < frame_width * frame_height THEN <<>>
             ELSE << <<x, y, w, h, face[5]>> >>

\* One box of normalize_faces: <<>> when dropped, <<box>> when kept.
normalize_one(face, frame_width, frame_height) ==
    IF face[5] < MIN_FACE_SCORE_PCT THEN <<>>
    ELSE LET x == clamp(face[1], 0, frame_width - 1)
             y == clamp(face[2], 0, frame_height - 1)
             w == clamp(face[3], 1, frame_width - x)
             h == clamp(face[4], 1, frame_height - y)
         IN  IF 1000 * (w * h) < frame_width * frame_height THEN <<>>
             ELSE << <<x, y, w, h, face[5]>> >>

RECURSIVE normalize_faces(_, _, _)
normalize_faces(faces, frame_width, frame_height) ==
    IF faces = <<>> THEN <<>>
    ELSE normalize_one(Head(faces), frame_width, frame_height)
         \o normalize_faces(Tail(faces), frame_width, frame_height)

\* sorted(faces, key=face_area, reverse=True): stable, largest area first.
RECURSIVE InsertByArea(_, _)
InsertByArea(face, sorted) ==
    IF sorted = <<>> THEN <<face>>
    ELSE IF face_area(Head(sorted)) >= face_area(face)
         THEN <<Head(sorted)>> \o InsertByArea(face, Tail(sorted))
         ELSE <<face>> \o sorted

RECURSIVE SortByAreaDesc(_)
SortByAreaDesc(faces) ==
    IF faces = <<>> THEN <<>>
    ELSE LET n == Len(faces)
         IN  InsertByArea(faces[n], SortByAreaDesc(SubSeq(faces, 1, n - 1)))

BoxLeft(face) == face[1]
BoxRight(face) == face[1] + face[3]

\* min(face[0] for face in group)
MinLeft(group) == CHOOSE v \in {BoxLeft(group[i]) : i \in DOMAIN group} :
                      \A j \in DOMAIN group : v <= BoxLeft(group[j])

\* max(face[0] + face[2] for face in group)
MaxRight(group) == CHOOSE v \in {BoxRight(group[i]) : i \in DOMAIN group} :
                       \A j \in DOMAIN group : v >= BoxRight(group[j])

\* The group of pick_face_center: boxes at least 0.6 of the largest area.
FaceGroup(faces_sorted) ==
    LET top_area == face_area(faces_sorted[1])
    IN  SelectSeq(faces_sorted,
                  LAMBDA f : 10 * face_area(f) >= GROUP_FACE_AREA_TENTHS * top_area)

\* int((min_x + max_x) / 2)
GroupCenterRoundUp(min_x, max_x) == CeilDiv(min_x + max_x, 2)
GroupCenter(min_x, max_x) == TruncDiv(min_x + max_x, 2)

\* span <= target_width * GROUP_MAX_SPAN_RATIO
SpanFits(span, target_width) == 10 * span <= GROUP_MAX_SPAN_TENTHS * target_width

\* The scoring loop of pick_face_center.  prev_center is in units.  Every
\* total is taken over the common denominator ScoreDen, so that totals of
\* different boxes compare as integers.
ScoreDen(frame_width, frame_height) ==
    LCM(LCM(frame_width * frame_height, 5 * Unit * frame_width), 10000)

ScoreTotal(face, prev_center, frame_width, frame_height) ==
    LET den == ScoreDen(frame_width, frame_height)
        center2 == 2 * face[1] + face[3]
        dist == Abs(Resolution * center2 - prev_center[1])
    IN  face_area(face) * (den \div (frame_width * frame_height))
        - dist * (den \div (5 * Unit * frame_width))
        + face[5] * (den \div 10000)

\* best_score = -1e9
BestScoreInitPositive == -BEST_SCORE_INIT
BestScoreInit == BEST_SCORE_INIT

\* total > best_score, best_score either the initial -1e9 or an earlier total
ScoreBeats(total, best, den) ==
    IF best = None THEN CeilDiv(total, den) > BestScoreInit
    ELSE total > best[1]

RECURSIVE ScoreLoop(_, _, _, _, _, _)
ScoreLoop(faces_sorted, prev_center, frame_width, frame_height, best_score, best_center2) ==
    IF faces_sorted = <<>> THEN best_center2
    ELSE LET face == Head(faces_sorted)
             total == ScoreTotal(face, prev_center, frame_width, frame_height)
             den == ScoreDen(frame_width, frame_height)
         IN  IF ScoreBeats(total, best_score, den)
             THEN ScoreLoop(Tail(faces_sorted), prev_center, frame_width,
                            frame_height, Some(total),
                            Some(2 * face[1] + face[3]))
             ELSE ScoreLoop(Tail(faces_sorted), prev_center, frame_width,
                            frame_height, best_score, best_center2)

\* Which return statement of pick_face_center is taken.
pick_branch(faces, prev_center, target_width) ==
    IF faces = <<>> THEN "empty"
    ELSE LET faces_sorted == SortByAreaDesc(faces)
             group == FaceGroup(faces_sorted)
         IN  IF /\ Len(faces_sorted) > 1
                /\ Len(group) >= 2
                /\ SpanFits(MaxRight(group) - MinLeft(group),
                            target_width)
             THEN "group"
             ELSE IF prev_center = None THEN "largest" ELSE "scored"

\* pick_face_center: Some(integer pixel column), or None.
pick_face_center(faces, prev_center, frame_width, frame_height, target_width) ==
    LET faces_sorted == SortByAreaDesc(faces)
        branch == pick_branch(faces, prev_center, target_width)
    IN  CASE branch = "empty" -> None
          [] branch = "group" ->
               LET group == FaceGroup(faces_sorted)
               IN  Some(GroupCenter(MinLeft(group), MaxRight(group)))
          [] branch = "largest" ->
               Some(TruncDiv(2 * faces_sorted[1][1] + faces_sorted[1][3], 2))
          [] OTHER ->
               LET best_center2 == ScoreLoop(faces_sorted, prev_center, frame_width,
                                             frame_height, None, None)
               IN  IF best_center2 = None THEN None
                   ELSE Some(TruncDiv(best_center2[1], 2))

\* --------------------------------------------------------------- geometry
\* ensure_valid_dimensions raises
InvalidDimensions(w, h) == w < 2 \/ h < 2

\* target_height after the even rounding.
TargetHeight(h) == h - (h % 2)

\* crop_face_tracking: int(height * 9 / 16), capped at width, rounded to even.
FaceTargetWidthUneven(w, h) ==
    LET raw == (h * 9) \div 16
    IN  IF raw > w THEN w ELSE raw
FaceTargetWidth(w, h) ==
    LET raw == (h * 9) \div 16
        capped == IF raw > w THEN w ELSE raw
    IN  capped - (capped % 2)

\* crop_screen_tracking: int(height * 9 / 16) rounded to even; no cap.
ScreenTargetWidth(w, h) ==
    LET raw == (h * 9) \div 16
    IN  raw - (raw % 2)

\* crop_screen_tracking: <<scaled_width, scaled_height>>.
ScreenScaled(w, h, tw, th) ==
    LET target_display_width == (67 * w) \div 100
        sw == (w * tw) \div target_display_width
        sh == (h * tw) \div target_display_width
    IN  IF sh > th THEN << (w * th) \div h, (h * th) \div h >>
        ELSE <<sw, sh>>

\* if width <= target_width: the passthrough path
IsPassthroughStrict(w, tw) == w < tw
IsPassthrough(w, tw) == w <= tw

\* ------------------------------------------------------------ frame rate
\* resolve_fps: the reported rate, or DEFAULT_FPS when it is 0 or negative.
resolve_fps(raw) == IF raw[1] <= 0 THEN <<DEFAULT_FPS, 1>> ELSE raw

\* max(1, int(fps * 0.5))
FaceUpdateIntervalRound(f) == Max2(1, RoundHalfEven(f[1], 2 * f[2]))
FaceUpdateInterval(f) == Max2(1, f[1] \div (2 * f[2]))

\* max(1, int(fps))
ScreenUpdateInterval(f) == Max2(1, f[1] \div f[2])

\* min(0.3, max(0.05, 5 / fps))
Smoothing(f) == FracMin(<<3, 10>>, FracMax(<<1, 20>>, <<5 * f[2], f[1]>>))

\* int(fps * MISSING_FACE_SECONDS)
MissingThreshold(f) == (MISSING_FACE_SECONDS * f[1]) \div f[2]

\* missing_frames >= missing_threshold
MissingReachedStrict(missing, threshold) == missing > threshold
MissingReached(missing, threshold) == missing >= threshold

\* smoothed_center += (target_center - smoothed_center) * smoothing, in units.
SmoothStepSignSlip(smoothed, target, alpha) ==
    smoothed + RoundHalfEven((target + smoothed) * alpha[1], alpha[2])
SmoothStep(smoothed, target, alpha) ==
    smoothed + RoundHalfEven((target - smoothed) * alpha[1], alpha[2])

\* half_width = target_width / 2, in units.
HalfWidth(tw) == Resolution * tw

\* crop_x = int(clamp(int(round(smoothed_center - half_width)), 0, width - tw))
FaceCropX(smoothed, w, tw) ==
    clamp(RoundHalfEven(smoothed - HalfWidth(tw), Unit), 0, w - tw)

\* ------------------------------------------------------------------ state
VARIABLES
    mode,              \* "auto" | "face" | "screen": the planner main() runs
    source,            \* Frame Source metadata: [width, height, fps, frame_count]
    stream_min,        \* the source delivers at least this many frames
    stream_max,        \* the source delivers at most this many frames
    scenario,          \* what the detector and the motion estimate may do
    pc,                \* "start" | "passthrough" | "tracking" | "screen" | "done"
                       \* | "raised" | "pick" | "picked"
    error,             \* the exception that reaches the caller, "none" if none
    cause,             \* the first exception raised during the pass
    width, height, fps, total_frames,
    target_width, target_height, scaled_width, scaled_height,
    cap,               \* decoder handle: "unopened" | "open" | "released"
    cap_pos,           \* index of the next frame cap.read() returns
    detector,          \* "none" | "open" | "closed"
    detect_calls,      \* number of detector.detect calls of the pass
    ffmpeg_stdin,      \* "none" | "open" | "closed"
    ffmpeg_proc,       \* "none" | "running" | "exited"
    frame_idx, frames_written,
    written,           \* frames the sink received: <<source index, width, height>>
    update_interval, smoothing, missing_threshold,
    smoothed_center, target_center, missing_frames,
    crop,              \* crop rectangle of the last planned frame, <<x, y, w, h>>
    smoothed_x, prev_gray,
    moved,             \* some motion update so far saw significant motion
    last_motion,       \* the motion estimate of the frame planned last
    prev_smoothed_x,   \* smoothed_x before the frame planned last
    detect_frames,     \* indices of the frames detector.detect was called on
    had_center,        \* an earlier detection of the pass produced a centre
    first_pick,        \* the choice at the pass's first centre: see FirstPick
    sel_res,           \* Mode Selector's decoder and detector: "none" | "open"
                       \* | "released"
    sel_samples,       \* sample_indices
    sel_pos,           \* loop iterations of the Mode Selector so far
    sel_examined,      \* indices of the frames the Mode Selector examined
    sel_usable,        \* some examined frame yielded a usable box
    centers,           \* centers
    none_run,          \* consecutive update points, up to the latest, with no centre
    at_update,         \* the frame planned last was an update point
    pf_args, pf_result \* arguments and result of a pick_face_center call

geomVars == <<width, height, fps, total_frames, target_width, target_height,
              scaled_width, scaled_height, update_interval, smoothing,
              missing_threshold>>
resVars == <<cap, detector, ffmpeg_stdin, ffmpeg_proc>>
faceVars == <<smoothed_center, target_center, missing_frames, crop, none_run,
              at_update, detect_calls, detect_frames, had_center, first_pick>>
screenVars == <<smoothed_x, prev_gray, moved, last_motion, prev_smoothed_x>>
envVars == <<source, stream_min, stream_max, scenario>>
selVars == <<sel_res, sel_samples, sel_pos, sel_examined, sel_usable, centers>>
sinkVars == <<frame_idx, frames_written, written>>
pickVars == <<pf_args, pf_result>>
vars == <<mode, envVars, pc, error, cause, geomVars, resVars, cap_pos, faceVars,
          screenVars, sinkVars, pickVars, selVars>>

\* ----------------------------------------------------------------- inputs
Widths == 1..MaxWidth
Heights == 1..MaxHeight
\* Reported frame rates: unavailable (0), 1.5, 2, 2.7, 3.5 and 4 frames per
\* second.
RawFps == {<<0, 1>>, <<3, 2>>, <<2, 1>>, <<27, 10>>, <<7, 2>>, <<4, 1>>}
FrameCounts == 0..3

\* What detector.detect can do on a w x h frame: raise, or return raw boxes.
DetectorOutcomes(w, h) ==
    { <<"raise">>,
      <<"boxes", <<>> >>,
      <<"boxes", << <<0, 0, 1, 1, 40>> >> >>,
      <<"boxes", << <<-1, 0, 2, 2, 90>> >> >>,
      <<"boxes", << <<w - 1, 0, 3, 2, 90>> >> >>,
      <<"boxes", << <<w \div 2, 0, 1, 2, 90>> >> >>,
      <<"boxes", << <<0, 0, 2, 2, 90>>, <<1, 0, 2, 2, 90>> >> >>,
      <<"boxes", << <<0, 0, 1, 1, 90>>, <<w - 2, 0, 2, 2, 60>> >> >>,
      <<"boxes", << <<0, 0, 2, 2, 90>>, <<(w \div 2) - 1, 0, 2, 1, 90>> >> >> }

\* What the motion estimate can do at an update frame: raise, find no
\* significant motion, or find the motion centroid at column m.
MotionOutcomes(sw) ==
    { <<"raise">>, <<"still">> } \cup { <<"at", m>> : m \in 0..(sw - 1) }

\* Scenario A's detector: one box centred in the frame, score 0.9, a fifth of
\* the frame's area (3/8 of its width by 8/15 of its height).
CentredBox(w, h) ==
    LET bw == (3 * w) \div 8
        bh == (8 * h) \div 15
    IN  <<(w - bw) \div 2, (h - bh) \div 2, bw, bh, 90>>

\* The detector of each scenario: "A" always returns the centred box, "B"
\* never returns a box, "select" raises or returns at most one box.
DetectorOutcomesFor(scen, w, h) ==
    CASE scen = "A" -> { <<"boxes", << CentredBox(w, h) >> >> }
      [] scen = "B" -> { <<"boxes", <<>> >> }
      [] scen = "select" -> { <<"raise">>,
                              <<"boxes", <<>> >>,
                              <<"boxes", << <<0, 0, 1, 1, 40>> >> >>,
                              <<"boxes", << <<w, 0, 1, 1, 90>> >> >>,
                              <<"boxes", << <<w \div 2, 0, 1, 2, 90>> >> >> }
      [] OTHER -> DetectorOutcomes(w, h)

\* The motion estimate of each scenario: "A" and "B" have no motion at all.
MotionOutcomesFor(scen, sw) ==
    IF scen \in {"A", "B"} THEN { <<"still">> } ELSE MotionOutcomes(sw)

\* ffmpeg_proc.stdin.write: succeeds, or raises BrokenPipeError.
SinkOutcomes == {"ok", "broken"}
ExitCodes == {0, 1}

\* ------------------------------------------------------------------- init
Idle ==
    /\ error = "none" /\ cause = "none"
    /\ width = 0 /\ height = 0 /\ fps = <<0, 1>> /\ total_frames = 0
    /\ target_width = 0 /\ target_height = 0
    /\ scaled_width = 0 /\ scaled_height = 0
    /\ update_interval = 0 /\ smoothing = <<0, 1>> /\ missing_threshold = 0
    /\ cap = "unopened" /\ cap_pos = 0
    /\ detector = "none" /\ detect_calls = 0
    /\ ffmpeg_stdin = "none" /\ ffmpeg_proc = "none"
    /\ frame_idx = 0 /\ frames_written = 0 /\ written = <<>>
    /\ smoothed_center = 0 /\ target_center = 0 /\ missing_frames = 0
    /\ crop = <<>> /\ smoothed_x = 0 /\ prev_gray = FALSE
    /\ none_run = 0 /\ at_update = FALSE
    /\ moved = FALSE /\ last_motion = <<"none">> /\ prev_smoothed_x = 0
    /\ detect_frames = {} /\ had_center = FALSE /\ first_pick = <<>>
    /\ sel_res = "none" /\ sel_samples = <<>> /\ sel_pos = 0
    /\ sel_examined = <<>> /\ sel_usable = FALSE /\ centers = <<>>

\* Any source of at most MaxFrames frames, any detector and estimator.
AnySource == scenario = "any" /\ stream_min = 0 /\ stream_max = MaxFrames

\* main() has chosen a planner for a source; the planner has not started.
\* crop_face_tracking only logs the frame count, so face mode fixes it to 0.
Init ==
    /\ mode \in {"face", "screen"}
    /\ source \in [width : Widths, height : Heights, fps : RawFps,
                   frame_count : FrameCounts]
    /\ (mode = "face" => source.frame_count = 0)
    /\ pc = "start"
    /\ Idle /\ AnySource
    /\ pf_args = <<>> /\ pf_result = <<>>

\* ------------------------------------------------------------ Frame Sink
\* The decoder position after one cap.read() that returned a frame.
AfterReadSkip(pos) == pos + 2
AfterRead(pos) == pos + 1

\* write_frame succeeded: the sink holds one more frame.
WriteOk(frame, w, h) ==
    /\ written' = Append(written, <<frame, w, h>>)
    /\ frames_written' = frames_written + 1

\* write_frame hit BrokenPipeError: communicate() closes stdin and waits for
\* the encoder, then RuntimeError is raised.
WriteBroken ==
    /\ UNCHANGED <<written, frames_written>>
    /\ ffmpeg_stdin' = "closed"
    /\ ffmpeg_proc' = "exited"

\* The raise statements before the frame loop: nothing is released.
RaiseEarly(kind) ==
    /\ pc' = "raised" /\ error' = kind /\ cause' = kind

\* ------------------------------------------------- crop_face_tracking start
\* Lines 237-317: open, geometry, encoder start, passthrough test, planner
\* state.
FaceSetup ==
    /\ pc = "start" /\ mode = "face"
    /\ \E opened \in BOOLEAN :
        LET w == source.width
            h == source.height
            tw == FaceTargetWidth(w, h)
            th == TargetHeight(h)
            f == resolve_fps(source.fps)
        IN  IF ~opened
            THEN /\ RaiseEarly("open")
                 /\ UNCHANGED <<geomVars, resVars, faceVars>>
            ELSE IF InvalidDimensions(w, h)
            THEN /\ RaiseEarly("dimensions")
                 /\ cap' = "open" /\ width' = w /\ height' = h
                 /\ UNCHANGED <<fps, total_frames, target_width, target_height,
                                scaled_width, scaled_height, update_interval,
                                smoothing, missing_threshold, detector,
                                ffmpeg_stdin, ffmpeg_proc, faceVars>>
            ELSE /\ cap' = "open" /\ width' = w /\ height' = h /\ fps' = f
                 /\ total_frames' = source.frame_count
                 /\ target_width' = tw /\ target_height' = th
                 /\ UNCHANGED <<scaled_width, scaled_height, detect_calls,
                                missing_frames, crop, none_run, at_update,
                                detect_frames, had_center, first_pick>>
                 /\ IF InvalidDimensions(tw, th)
                    THEN /\ RaiseEarly("dimensions")
                         /\ UNCHANGED <<update_interval, smoothing,
                                        missing_threshold, detector, ffmpeg_stdin,
                                        ffmpeg_proc, smoothed_center, target_center>>
                    ELSE /\ ffmpeg_stdin' = "open" /\ ffmpeg_proc' = "running"
                         /\ UNCHANGED <<error, cause>>
                         /\ IF IsPassthrough(w, tw)
                            THEN /\ pc' = "passthrough"
                                 /\ UNCHANGED <<update_interval, smoothing,
                                                missing_threshold, detector,
                                                smoothed_center, target_center>>
                            ELSE /\ pc' = "tracking"
                                 /\ detector' = "open"
                                 /\ update_interval' = FaceUpdateInterval(f)
                                 /\ smoothing' = Smoothing(f)
                                 /\ missing_threshold' = MissingThreshold(f)
                                 /\ smoothed_center' = Resolution * w
                                 /\ target_center' = Resolution * w
    /\ UNCHANGED <<mode, envVars, cap_pos, screenVars, sinkVars, pickVars, selVars>>

\* ------------------------------------------------------------- passthrough
\* Lines 294-300: one iteration that read a frame.
PassthroughFrame ==
    /\ pc = "passthrough"
    /\ cap_pos < stream_max
    /\ cap_pos' = AfterRead(cap_pos)
    /\ \E sink \in SinkOutcomes :
        IF sink = "ok"
        THEN /\ WriteOk(cap_pos, target_width, target_height)
             /\ UNCHANGED <<pc, error, cause, ffmpeg_stdin, ffmpeg_proc>>
        ELSE /\ WriteBroken
             /\ pc' = "raised" /\ error' = "sink" /\ cause' = "sink"
    /\ UNCHANGED <<mode, envVars, geomVars, cap, detector, faceVars, screenVars,
                   frame_idx, pickVars, selVars>>

\* Lines 296-308: cap.read() reports end of stream; release and wait.
PassthroughFinish ==
    /\ pc = "passthrough"
    /\ cap_pos >= stream_min
    /\ cap' = "released" /\ ffmpeg_stdin' = "closed" /\ ffmpeg_proc' = "exited"
    /\ \E ret \in ExitCodes :
        IF ret # 0
        THEN pc' = "raised" /\ error' = "exit" /\ cause' = "exit"
        ELSE pc' = "done" /\ UNCHANGED <<error, cause>>
    /\ UNCHANGED <<mode, envVars, geomVars, detector, cap_pos, faceVars,
                   screenVars, sinkVars, pickVars, selVars>>

\* ----------------------------------------------------------- face tracking
\* The finally block, lines 349-360, entered with exception `first` in
\* flight ("none" at end of stream).
FaceFinally(first) ==
    /\ cap' = "released" /\ detector' = "closed"
    /\ ffmpeg_stdin' = "closed" /\ ffmpeg_proc' = "exited"
    /\ \E ret \in ExitCodes :
        /\ error' = IF ret # 0 THEN "exit" ELSE first
        /\ cause' = IF first # "none" THEN first
                    ELSE IF ret # 0 THEN "exit" ELSE "none"
        /\ pc' = IF ret # 0 \/ first # "none" THEN "raised" ELSE "done"

\* The update branch, lines 326-336: <<target_center, missing_frames>> after
\* pick_face_center returned `center`.
FaceUpdateEager(center, target, missing, w, interval, threshold) ==
    IF center # None THEN <<Unit * center[1], 0>>
    ELSE <<Resolution * w, missing + interval>>
FaceUpdate(center, target, missing, w, interval, threshold) ==
    IF center # None THEN <<Unit * center[1], 0>>
    ELSE IF MissingReached(missing + interval, threshold)
         THEN <<Resolution * w, missing + interval>>
         ELSE <<target, missing + interval>>

\* What pick_face_center did at the first detection that produced a centre:
\* <<return statement taken, centre of the largest box, centre returned>>;
\* <<>> at every other frame.
FirstPick(is_update, had, faces, prev_center, center, tw) ==
    IF is_update /\ ~had /\ center # None
    THEN LET largest == SortByAreaDesc(faces)[1]
         IN  <<pick_branch(faces, prev_center, tw),
               TruncDiv(2 * largest[1] + largest[3], 2), center[1]>>
    ELSE <<>>

\* Lines 321-348: one iteration that read a frame.  The detector is called
\* on update frames only; `det` is what it does there.
FaceFrame ==
    /\ pc = "tracking"
    /\ cap_pos < stream_max
    /\ cap_pos' = AfterRead(cap_pos)
    /\ LET is_update == frame_idx % update_interval = 0
       IN \E det \in IF is_update
                     THEN DetectorOutcomesFor(scenario, width, height)
                     ELSE { <<"skip">> } :
           IF det[1] = "raise"
           THEN /\ detect_calls' = detect_calls + 1
                /\ detect_frames' = detect_frames \cup {frame_idx}
                /\ FaceFinally("detector")
                /\ UNCHANGED <<smoothed_center, target_center, missing_frames,
                               crop, none_run, at_update, had_center, first_pick,
                               sinkVars>>
           ELSE
             \E faces \in { IF is_update
                            THEN normalize_faces(det[2], width, height)
                            ELSE <<>> } :
             \E center \in IF is_update
                           THEN { pick_face_center(faces, Some(smoothed_center),
                                                   width, height, target_width) }
                           ELSE { None } :
             \E upd \in { IF is_update
                          THEN FaceUpdate(center, target_center, missing_frames,
                                          width, update_interval, missing_threshold)
                          ELSE <<target_center, missing_frames>> } :
             \E target \in { clamp(upd[1], HalfWidth(target_width),
                                   Unit * width - HalfWidth(target_width)) } :
             \E smoothed \in { SmoothStep(smoothed_center, target, smoothing) } :
                 /\ detect_calls' = IF is_update THEN detect_calls + 1
                                    ELSE detect_calls
                 /\ detect_frames' = IF is_update
                                     THEN detect_frames \cup {frame_idx}
                                     ELSE detect_frames
                 /\ had_center' = (had_center \/ center # None)
                 /\ first_pick' = FirstPick(is_update, had_center, faces,
                                            Some(smoothed_center), center,
                                            target_width)
                 /\ target_center' = target
                 /\ missing_frames' = upd[2]
                 /\ smoothed_center' = smoothed
                 /\ crop' = <<FaceCropX(smoothed, width, target_width), 0,
                              target_width, target_height>>
                 /\ at_update' = is_update
                 /\ none_run' = IF ~is_update THEN none_run
                                ELSE IF center = None THEN none_run + 1 ELSE 0
                 /\ \E sink \in SinkOutcomes :
                     IF sink = "ok"
                     THEN /\ WriteOk(cap_pos, target_width, target_height)
                          /\ frame_idx' = frame_idx + 1
                          /\ UNCHANGED <<pc, error, cause, resVars>>
                     ELSE /\ UNCHANGED <<written, frames_written, frame_idx>>
                          /\ FaceFinally("sink")
    /\ UNCHANGED <<mode, envVars, geomVars, screenVars, pickVars, selVars>>

\* Lines 322-323 and 349-360: end of stream, then the finally block.
FaceFinish ==
    /\ pc = "tracking"
    /\ cap_pos >= stream_min
    /\ FaceFinally("none")
    /\ UNCHANGED <<mode, envVars, geomVars, cap_pos, faceVars, screenVars,
                   sinkVars, pickVars, selVars>>

\* --------------------------------------------------------- screen tracking
\* Lines 366-432: open, geometry, scaling, encoder start, planner state.
ScreenSetup ==
    /\ pc = "start" /\ mode = "screen"
    /\ \E opened \in BOOLEAN :
        LET w == source.width
            h == source.height
            tw == ScreenTargetWidth(w, h)
            th == TargetHeight(h)
            f == resolve_fps(source.fps)
        IN  IF ~opened
            THEN /\ RaiseEarly("open")
                 /\ UNCHANGED <<geomVars, resVars>>
            ELSE IF InvalidDimensions(w, h)
            THEN /\ RaiseEarly("dimensions")
                 /\ cap' = "open" /\ width' = w /\ height' = h
                 /\ UNCHANGED <<fps, total_frames, target_width, target_height,
                                scaled_width, scaled_height, update_interval,
                                smoothing, missing_threshold, detector,
                                ffmpeg_stdin, ffmpeg_proc>>
            ELSE /\ cap' = "open" /\ width' = w /\ height' = h /\ fps' = f
                 /\ total_frames' = source.frame_count
                 /\ target_width' = tw /\ target_height' = th
                 /\ UNCHANGED <<smoothing, missing_threshold, detector>>
                 /\ IF InvalidDimensions(tw, th)
                    THEN /\ RaiseEarly("dimensions")
                         /\ UNCHANGED <<scaled_width, scaled_height,
                                        update_interval, ffmpeg_stdin, ffmpeg_proc>>
                    ELSE /\ scaled_width' = ScreenScaled(w, h, tw, th)[1]
                         /\ scaled_height' = ScreenScaled(w, h, tw, th)[2]
                         /\ ffmpeg_stdin' = "open" /\ ffmpeg_proc' = "running"
                         /\ update_interval' = ScreenUpdateInterval(f)
                         /\ pc' = "screen"
                         /\ UNCHANGED <<error, cause>>
    /\ UNCHANGED <<mode, envVars, cap_pos, faceVars, screenVars, sinkVars, pickVars, selVars>>

\* if total_frames and frame_idx >= total_frames: break
ScreenStoppedLate(idx, total) == total # 0 /\ idx > total
ScreenStopped(idx, total) == total # 0 /\ idx >= total

\* target_x = max(0, min(motion_x - target_width // 2, scaled_width - tw))
ScreenTargetX(motion_x, sw, tw) == Max2(0, Min2(motion_x - (tw \div 2), sw - tw))

\* smoothed_x = int(0.9 * smoothed_x + 0.1 * target_x)
ScreenSmooth(sx, target_x) == (9 * sx + target_x) \div 10

\* crop_x = max(0, min(int(smoothed_x), scaled_width - target_width))
ScreenCropXCentred(sx, sw, tw) == Max2(0, Min2(sx + (sw - tw) \div 2, sw - tw))
ScreenCropX(sx, sw, tw) == Max2(0, Min2(sx, sw - tw))

\* Lines 449-466: smoothed_x after the frame.  The motion estimate runs at an
\* update frame that has a previous luma image (`estimates`); smoothed_x
\* moves only when it found significant motion.
ScreenNextXDecay(sx, estimates, motion, sw, tw) ==
    IF estimates
    THEN ScreenSmooth(sx, IF motion[1] = "at"
                          THEN ScreenTargetX(motion[2], sw, tw) ELSE 0)
    ELSE sx
ScreenNextX(sx, estimates, motion, sw, tw) ==
    IF estimates /\ motion[1] = "at"
    THEN ScreenSmooth(sx, ScreenTargetX(motion[2], sw, tw))
    ELSE sx

\* Lines 435-485: one iteration that read a frame.
ScreenFrame ==
    /\ pc = "screen"
    /\ ~ScreenStopped(frame_idx, total_frames)
    /\ cap_pos < stream_max
    /\ cap_pos' = AfterRead(cap_pos)
    /\ LET is_update == frame_idx % update_interval = 0
           estimates == is_update /\ prev_gray
       IN \E motion \in IF estimates
                        THEN MotionOutcomesFor(scenario, scaled_width)
                        ELSE { <<"skip">> },
             sink \in SinkOutcomes :
           IF motion[1] = "raise"
           THEN /\ pc' = "raised" /\ error' = "estimator" /\ cause' = "estimator"
                /\ UNCHANGED <<screenVars, sinkVars, crop, ffmpeg_stdin, ffmpeg_proc>>
           ELSE
             LET sx == ScreenNextX(smoothed_x, estimates, motion, scaled_width,
                                   target_width)
                 crop_x == ScreenCropX(sx, scaled_width, target_width)
             IN  /\ smoothed_x' = sx
                 /\ prev_smoothed_x' = smoothed_x
                 /\ last_motion' = motion
                 /\ moved' = (moved \/ motion[1] = "at")
                 /\ prev_gray' = (prev_gray \/ is_update)
                 /\ crop' = <<crop_x, 0, target_width, target_height>>
                 /\ IF sink = "ok"
                    THEN /\ WriteOk(cap_pos, target_width, target_height)
                         /\ frame_idx' = frame_idx + 1
                         /\ UNCHANGED <<pc, error, cause, ffmpeg_stdin, ffmpeg_proc>>
                    ELSE /\ WriteBroken
                         /\ UNCHANGED frame_idx
                         /\ pc' = "raised" /\ error' = "sink" /\ cause' = "sink"
    /\ UNCHANGED <<mode, envVars, geomVars, cap, detector, smoothed_center,
                   target_center, missing_frames, none_run, at_update,
                   detect_calls, detect_frames, had_center, first_pick,
                   pickVars, selVars>>

\* Lines 436-437 or 487-488, then 490-499: the loop ends (end of stream, or
\* the frame count is reached); release and wait.
ScreenFinish ==
    /\ pc = "screen"
    /\ ScreenStopped(frame_idx, total_frames) \/ cap_pos >= stream_min
    /\ cap' = "released" /\ ffmpeg_stdin' = "closed" /\ ffmpeg_proc' = "exited"
    /\ \E ret \in ExitCodes :
        IF ret # 0
        THEN pc' = "raised" /\ error' = "exit" /\ cause' = "exit"
        ELSE pc' = "done" /\ UNCHANGED <<error, cause>>
    /\ UNCHANGED <<mode, envVars, geomVars, detector, cap_pos, faceVars,
                   screenVars, sinkVars, pickVars, selVars>>

Next ==
    \/ FaceSetup
    \/ PassthroughFrame
    \/ PassthroughFinish
    \/ FaceFrame
    \/ FaceFinish
    \/ ScreenSetup
    \/ ScreenFrame
    \/ ScreenFinish

Spec == Init /\ [][Next]_vars

\* ------------------------------------------- pick_face_center on its own
\* Boxes with integer positions on either side of the frame's left edge.
PickBoxes ==
    { <<x, 0, w, h, sc>> : x \in (-2)..MaxBoxPos, w \in 1..MaxBoxSize,
                           h \in 1..MaxBoxSize, sc \in {50, 90} }
PickFaces ==
    { <<>> } \cup { <<a>> : a \in PickBoxes }
             \cup { <<a, b>> : a \in PickBoxes, b \in PickBoxes }
\* Frame sizes whose face target width is 4 (and 5 when MaxHeight is raised).
PickFrames == { <<w, MaxHeight>> : w \in (MaxWidth - 1)..MaxWidth }
\* Previous centres: none, or a whole or half pixel column.
PickPrev == { None } \cup { Some(Resolution * k) : k \in {0, 3, 2 * MaxWidth} }

InitPick ==
    /\ mode = "face"
    /\ source = [width |-> 1, height |-> 1, fps |-> <<0, 1>>, frame_count |-> 0]
    /\ pc = "pick"
    /\ Idle /\ AnySource
    /\ pf_args \in { <<faces, prev, fr[1], fr[2], FaceTargetWidth(fr[1], fr[2])>> :
                       faces \in PickFaces, prev \in PickPrev, fr \in PickFrames }
    /\ pf_result = <<>>

\* One call of pick_face_center; the result is kept as <<result>>.
PickCall ==
    /\ pc = "pick"
    /\ pc' = "picked"
    /\ pf_result' = <<pick_face_center(pf_args[1], pf_args[2], pf_args[3],
                                        pf_args[4], pf_args[5])>>
    /\ UNCHANGED <<mode, envVars, error, cause, geomVars, resVars, cap_pos,
                   faceVars, screenVars, sinkVars, pf_args, selVars>>

NextPick == PickCall

SpecPick == InitPick /\ [][NextPick]_vars

\* --------------------------------------------- normalize_faces on its own
\* Frames: the largest planner frame, and one whose area exceeds 1000 so
\* that the minimum-area filter can drop a box.
NormFrames == { <<MaxWidth, MaxHeight>>, <<40, 30>> }
\* Raw detector boxes of a fw x fh frame: positions left of, inside and right
\* of the frame, sizes from 0 to larger than the frame, scores 0.4, 0.5, 0.9.
NormBoxes(fw, fh) ==
    { <<x, y, w, h, sc>> : x \in {-2, 0, fw - 1, fw + 1}, y \in {-1, fh},
                           w \in {0, 1, fw + 2}, h \in {1, fh + 1},
                           sc \in {40, 50, 90} }
NormFaces(fw, fh) ==
    { <<>> } \cup { <<a>> : a \in NormBoxes(fw, fh) }
             \cup { <<a, b>> : a \in NormBoxes(fw, fh), b \in NormBoxes(fw, fh) }

InitNorm ==
    /\ mode = "face"
    /\ source = [width |-> 1, height |-> 1, fps |-> <<0, 1>>, frame_count |-> 0]
    /\ pc = "norm"
    /\ Idle /\ AnySource
    /\ \E fr \in NormFrames :
           pf_args \in { <<faces, fr[1], fr[2]>> : faces \in NormFaces(fr[1], fr[2]) }
    /\ pf_result = <<>>

\* One call of normalize_faces; the result is kept as <<result>>.
NormCall ==
    /\ pc = "norm"
    /\ pc' = "normed"
    /\ pf_result' = <<normalize_faces(pf_args[1], pf_args[2], pf_args[3])>>
    /\ UNCHANGED <<mode, envVars, error, cause, geomVars, resVars, cap_pos,
                   faceVars, screenVars, sinkVars, pf_args, selVars>>

NextNorm == NormCall

SpecNorm == InitNorm /\ [][NextNorm]_vars


\* ------------------------------------------------- the screen planner alone
\* crop_screen_tracking on frames wide enough for the crop window to pan,
\* reading a stream of a fixed length that the reported frame count may
\* understate or overstate.
ScreenFrames == { <<64, 40>>, <<30, 40>>, <<128, 80>> }
ScreenFps == { <<3, 2>>, <<2, 1>> }
ScreenFrameCounts == {0, 3}

InitScreen ==
    /\ mode = "screen"
    /\ \E fr \in ScreenFrames :
           source \in [width : {fr[1]}, height : {fr[2]}, fps : ScreenFps,
                       frame_count : ScreenFrameCounts]
    /\ scenario = "any"
    /\ stream_max \in 0..MaxFrames
    /\ stream_min = stream_max
    /\ pc = "start"
    /\ Idle
    /\ pf_args = <<>> /\ pf_result = <<>>

NextScreen ==
    \/ ScreenSetup
    \/ ScreenFrame
    \/ ScreenFinish

SpecScreen == InitScreen /\ [][NextScreen]_vars


\* ------------------------------------------------------------ Mode Selector
\* np.linspace(0, total - 1, count, dtype=int)[i], i from 0: the i-th of
\* count evenly spaced positions, truncated.
EvenIndex(i, total, count) ==
    IF count = 1 THEN 0 ELSE (i * (total - 1)) \div (count - 1)

\* sample_indices for a source reporting total > 0 frames.
SampleIndices(total) ==
    LET sample_count == Min2(MAX_SAMPLES, total)
    IN  [k \in 1..sample_count |-> EvenIndex(k - 1, total, sample_count)]

\* int(faces[0][0] + faces[0][2] / 2) after faces.sort(key=face_area,
\* reverse=True)
LargestCenter(faces) ==
    LET top == SortByAreaDesc(faces)[1]
    IN  TruncDiv(2 * top[1] + top[3], 2)

\* mode = "face" if centers else "screen"
SelectModeTwo(cs) == IF Len(cs) >= 2 THEN "face" ELSE "screen"
SelectMode(cs) == IF cs # <<>> THEN "face" ELSE "screen"

\* Lines 209-214 and 221-225: the detector runs on the frame read at idx.
SelectExamine(idx) ==
    \E det \in DetectorOutcomesFor(scenario, source.width, source.height) :
        IF det[1] = "raise"
        THEN /\ pc' = "raised" /\ error' = "detector" /\ cause' = "detector"
             /\ sel_res' = "released"
             /\ UNCHANGED <<sel_examined, sel_usable, centers>>
        ELSE \E faces \in { normalize_faces(det[2], source.width, source.height) } :
             /\ sel_examined' = Append(sel_examined, idx)
             /\ sel_usable' = (sel_usable \/ faces # <<>>)
             /\ centers' = IF faces = <<>> THEN centers
                           ELSE Append(centers, LargestCenter(faces))
             /\ UNCHANGED <<pc, error, cause, sel_res>>

\* Lines 188-201 and 510: main() runs detect_face_centers; the decoder is
\* opened, the detector built and the sampling plan made.  A decoder that
\* does not open returns no centres (lines 189-190, 512).
SelectOpen ==
    /\ pc = "select" /\ mode = "auto"
    /\ \E opened \in BOOLEAN :
        IF ~opened
        THEN /\ pc' = "start" /\ mode' = SelectMode(<<>>)
             /\ UNCHANGED selVars
        ELSE /\ sel_res' = "open"
             /\ sel_samples' = IF source.frame_count > 0
                               THEN SampleIndices(source.frame_count) ELSE <<>>
             /\ pc' = IF source.frame_count > 0 THEN "sampling" ELSE "sequential"
             /\ UNCHANGED <<mode, sel_pos, sel_examined, sel_usable, centers>>
    /\ UNCHANGED <<envVars, error, cause, geomVars, resVars, cap_pos, faceVars,
                   screenVars, sinkVars, pickVars>>

\* Lines 202-214: one iteration over sample_indices; a frame that cannot be
\* read is skipped.
SelectSample ==
    /\ pc = "sampling"
    /\ sel_pos < Len(sel_samples)
    /\ Len(centers) < MAX_SAMPLES
    /\ sel_pos' = sel_pos + 1
    /\ \E ret \in BOOLEAN :
        /\ ret => sel_samples[sel_pos + 1] < stream_max
        /\ ~ret => sel_samples[sel_pos + 1] >= stream_min
        /\ IF ret THEN SelectExamine(sel_samples[sel_pos + 1])
           ELSE UNCHANGED <<pc, error, cause, sel_res, sel_examined, sel_usable,
                            centers>>
    /\ UNCHANGED <<mode, envVars, geomVars, resVars, cap_pos, faceVars,
                   screenVars, sinkVars, pickVars, sel_samples>>

\* Lines 217-226: one iteration of the sequential loop that read a frame.
SelectSequential ==
    /\ pc = "sequential"
    /\ sel_pos < MAX_SAMPLES
    /\ sel_pos < stream_max
    /\ sel_pos' = sel_pos + 1
    /\ SelectExamine(sel_pos)
    /\ UNCHANGED <<mode, envVars, geomVars, resVars, cap_pos, faceVars,
                   screenVars, sinkVars, pickVars, sel_samples>>

\* Lines 227-231 and 512: the loop is over (samples exhausted, max_samples
\* centres or frames reached, or end of stream); release, return centers,
\* and main() chooses the planner.
SelectFinish ==
    /\ \/ /\ pc = "sampling"
          /\ sel_pos = Len(sel_samples) \/ Len(centers) >= MAX_SAMPLES
       \/ /\ pc = "sequential"
          /\ sel_pos >= MAX_SAMPLES \/ sel_pos >= stream_min
    /\ sel_res' = "released"
    /\ mode' = SelectMode(centers)
    /\ pc' = "start"
    /\ UNCHANGED <<envVars, error, cause, geomVars, resVars, cap_pos, faceVars,
                   screenVars, sinkVars, pickVars, sel_samples, sel_pos,
                   sel_examined, sel_usable, centers>>

\* The Mode Selector alone, on sources that report 0 (unknown) to MaxTotal
\* frames and deliver none, three or MaxTotal.
SelectCounts == {0, 1, 5, MAX_SAMPLES, MaxTotal}
SelectStreams == {0, 3, MaxTotal}

InitSelect ==
    /\ mode = "auto"
    /\ source \in [width : {MaxWidth}, height : {MaxHeight}, fps : {<<2, 1>>},
                   frame_count : SelectCounts]
    /\ scenario = "select"
    /\ stream_max \in SelectStreams
    /\ stream_min = stream_max
    /\ pc = "select"
    /\ Idle
    /\ pf_args = <<>> /\ pf_result = <<>>

NextSelect ==
    \/ SelectOpen
    \/ SelectSample
    \/ SelectSequential
    \/ SelectFinish

SpecSelect == InitSelect /\ [][NextSelect]_vars


\* ------------------------------------------------------ end-to-end scenarios
\* main() in auto mode on a 1920x1080 source of 90 frames at 30 frames per
\* second: the Mode Selector, then the planner it chose.  In scenario "A" the
\* detector always returns one centred box, in "B" it never returns a box;
\* neither has any motion.
InitEndToEnd ==
    /\ mode = "auto"
    /\ source = [width |-> 1920, height |-> 1080, fps |-> <<30, 1>>,
                 frame_count |-> 90]
    /\ scenario \in {"A", "B"}
    /\ stream_min = 90 /\ stream_max = 90
    /\ pc = "select"
    /\ Idle
    /\ pf_args = <<>> /\ pf_result = <<>>

NextEndToEnd ==
    \/ SelectOpen
    \/ SelectSample
    \/ SelectFinish
    \/ FaceSetup
    \/ FaceFrame
    \/ FaceFinish
    \/ ScreenSetup
    \/ ScreenFrame
    \/ ScreenFinish

SpecEndToEnd == InitEndToEnd /\ [][NextEndToEnd]_vars


\* ================================================================ claims
\* A frame has been planned by the Face-Tracking Planner.
FacePlanned == mode = "face" /\ crop # <<>>

\* Lower and upper limit of the crop centre, in units.
CenterLo == HalfWidth(target_width)
CenterHi == Unit * width - HalfWidth(target_width)

\* C1: after every planned frame of the Face-Tracking Planner, whatever the
\* detector returned so far, smoothed_center and target_center both lie in
\* [target_width / 2, width - target_width / 2].
C1_CentersInRange ==
    FacePlanned =>
        /\ width > target_width
        /\ CenterLo <= smoothed_center /\ smoothed_center <= CenterHi
        /\ CenterLo <= target_center /\ target_center <= CenterHi

\* A detection right of the limit was clamped to it and the smoothed centre
\* has moved toward it.
C1_Witness ==
    /\ FacePlanned
    /\ frame_idx >= 2
    /\ target_center = CenterHi
    /\ smoothed_center > Resolution * width

\* C2: every crop rectangle the Face-Tracking Planner emits lies inside the
\* source frame: 0 <= x, x + target_width <= width, y = 0, and its size is
\* target_width x target_height.
C2_CropInsideFrame ==
    FacePlanned =>
        /\ 0 <= crop[1] /\ crop[1] + target_width <= width
        /\ crop[2] = 0 /\ crop[3] = target_width /\ crop[4] = target_height
        /\ target_height <= height

\* The crop window has panned away from the centre to the frame's right edge.
C2_Witness ==
    /\ FacePlanned
    /\ crop[1] > 0
    /\ crop[1] + target_width = width
    /\ 2 * crop[1] + target_width > width + 1

\* ceil(MISSING_FACE_SECONDS * fps / update_interval)
MissesToRecenter ==
    CeilDiv(MISSING_FACE_SECONDS * fps[1], fps[2] * update_interval)

\* C3: when pick_face_center has returned None at
\* ceil(MISSING_FACE_SECONDS * fps / update_interval) consecutive update
\* points, target_center is exactly width / 2 after the frame of the last one.
C3_MissingFailSafe ==
    (FacePlanned /\ at_update /\ none_run >= MissesToRecenter)
        => target_center = Resolution * width

\* The run of misses has just reached the count, after an earlier detection
\* had moved the crop off centre.
C3_Witness ==
    /\ FacePlanned /\ at_update
    /\ none_run = MissesToRecenter
    /\ missing_frames >= missing_threshold
    /\ smoothed_center # Resolution * width
    /\ target_center = Resolution * width

\* C4: in the three processing paths the sink holds the frames in source
\* order, each once and without gaps: frame i is the (i+1)-th frame written,
\* and while no failure has occurred every frame read has been written.
C4_FramesInOrder ==
    /\ \A i \in DOMAIN written : written[i][1] = i - 1
    /\ frames_written = Len(written)
    /\ (cause = "none" => Len(written) = cap_pos)

\* A screen-tracking pass that wrote several frames and ended normally.
C4_Witness ==
    /\ mode = "screen" /\ pc = "done"
    /\ Len(written) >= 3
    /\ cap_pos = Len(written)

\* The encoder handle is released: stdin closed and the process waited for.
EncoderReleased == ffmpeg_stdin = "closed" /\ ffmpeg_proc = "exited"

\* C5 (as claimed): when a write to the sink fails, the decoder handle, the
\* detector (if one was acquired) and the encoder handle are all released
\* before the failure reaches the caller, in each of the three paths.
C5_SinkFailureReleasesAll ==
    (pc = "raised" /\ cause = "sink") =>
        /\ cap = "released"
        /\ detector # "open"
        /\ EncoderReleased

\* C6 (as claimed): an error raised by the Face Detector or by the Motion
\* Estimator at an update frame never aborts the pass.
C6_SignalErrorDoesNotAbort ==
    ~(pc = "raised" /\ cause \in {"detector", "estimator"})

\* The passthrough path of crop_face_tracking was taken.
PassthroughTaken ==
    /\ mode = "face"
    /\ ffmpeg_proc # "none"
    /\ width <= target_width

\* C7: on a face-mode pass with width <= target_width no Face Detector is
\* constructed or invoked, and every frame written has exactly
\* target_width x target_height pixels.
C7_PassthroughNoDetector ==
    PassthroughTaken =>
        /\ detector = "none"
        /\ detect_calls = 0
        /\ \A i \in DOMAIN written :
               written[i][2] = target_width /\ written[i][3] = target_height

\* A passthrough pass that wrote frames and ended normally.
C7_Witness ==
    /\ PassthroughTaken
    /\ pc = "done"
    /\ Len(written) >= 2

\* C8 (as claimed): for every source of width >= 2 and height >= 2 the
\* target geometry each planner computes is even in both dimensions and no
\* larger than the source.
C8_TargetGeometry ==
    (cap # "unopened" /\ ~InvalidDimensions(width, height)) =>
        /\ target_width % 2 = 0 /\ target_height % 2 = 0
        /\ target_width <= width /\ target_height <= height

\* pick_face_center was called with two boxes of equal size whose combined
\* span is within GROUP_MAX_SPAN_RATIO * target_width.
TwoEqualBoxesInSpan ==
    /\ pc = "picked"
    /\ Len(pf_args[1]) = 2
    /\ pf_args[1][1][3] = pf_args[1][2][3]
    /\ pf_args[1][1][4] = pf_args[1][2][4]
    /\ 10 * (Max2(BoxRight(pf_args[1][1]), BoxRight(pf_args[1][2]))
             - Min2(BoxLeft(pf_args[1][1]), BoxLeft(pf_args[1][2])))
          <= GROUP_MAX_SPAN_TENTHS * pf_args[5]

\* min(x) + max(x + w) of the two boxes: twice the midpoint of their span.
TwiceMidpoint ==
    Min2(BoxLeft(pf_args[1][1]), BoxLeft(pf_args[1][2]))
    + Max2(BoxRight(pf_args[1][1]), BoxRight(pf_args[1][2]))

\* C9 (as claimed): for two boxes of equal size within the span limit,
\* pick_face_center returns exactly the midpoint of their combined span.
C9_ExactMidpoint ==
    TwoEqualBoxesInSpan =>
        (pf_result[1] # None /\ 2 * pf_result[1][1] = TwiceMidpoint)

\* C9 (amended): for two boxes of equal size within the span limit,
\* pick_face_center returns the midpoint of their combined span truncated
\* toward zero to an integer.
C9_TruncatedMidpoint ==
    TwoEqualBoxesInSpan =>
        /\ pf_result[1] # None
        /\ pf_result[1][1] = IF TwiceMidpoint >= 0 THEN TwiceMidpoint \div 2
                             ELSE -((-TwiceMidpoint) \div 2)

\* Two distinct equal boxes whose span has a half-pixel midpoint.
C9_Witness ==
    /\ TwoEqualBoxesInSpan
    /\ pf_args[1][1][1] # pf_args[1][2][1]
    /\ TwiceMidpoint % 2 = 1
    /\ pf_result[1] # None
    /\ 2 * pf_result[1][1] # TwiceMidpoint

\* C10: pick_face_center returns None exactly when it is given no boxes.
C10_NoneIffEmpty ==
    pc = "picked" => ((pf_result[1] = None) <=> (pf_args[1] = <<>>))

\* A call with a previous centre and two boxes that reached the scoring loop
\* and returned a centre.
C10_Witness ==
    /\ pc = "picked"
    /\ Len(pf_args[1]) = 2
    /\ pick_branch(pf_args[1], pf_args[2], pf_args[5]) = "scored"
    /\ pf_result[1] # None

\* A box lies inside the fw x fh frame.
BoxInFrame(b, fw, fh) ==
    /\ 0 <= b[1] /\ 0 <= b[2]
    /\ b[3] >= 1 /\ b[4] >= 1
    /\ b[1] + b[3] <= fw /\ b[2] + b[4] <= fh

\* Output box o stems from input box i: it carries i's score, and is i
\* itself when i already lies inside the frame.
StemsFrom(o, i, fw, fh) ==
    /\ o[5] = i[5]
    /\ (BoxInFrame(i, fw, fh) => o = i)

\* out is an order-preserving selection of the boxes of inp.
RECURSIVE OrderedSelection(_, _, _, _)
OrderedSelection(out, inp, fw, fh) ==
    IF out = <<>> THEN TRUE
    ELSE IF inp = <<>> THEN FALSE
    ELSE \/ /\ StemsFrom(Head(out), Head(inp), fw, fh)
            /\ OrderedSelection(Tail(out), Tail(inp), fw, fh)
         \/ OrderedSelection(out, Tail(inp), fw, fh)

FaceTracking == mode = "face" /\ detector # "none"

\* The frames among the first n whose index is a multiple of interval.
MultiplesBelow(n, interval) == { i \in 0..(n - 1) : i % interval = 0 }

\* C17: the Face Detector is invoked on frame i if and only if
\* i mod updateInterval = 0, where updateInterval = max(1, floor(fps * 0.5))
\* (the half rate truncated, not rounded), for every resolved frame rate
\* including non-integer ones; no other frame calls the detector.
C17_CadenceTruncated ==
    FaceTracking =>
        /\ detect_frames = MultiplesBelow(cap_pos, Max2(1, fps[1] \div (2 * fps[2])))
        /\ detect_calls = Cardinality(detect_frames)

\* C17 as stated: the same with updateInterval = max(1, round(fps * 0.5)).
C17_CadenceRounded ==
    FaceTracking =>
        /\ detect_frames = MultiplesBelow(cap_pos,
                               Max2(1, RoundHalfEven(fps[1], 2 * fps[2])))
        /\ detect_calls = Cardinality(detect_frames)

\* At 3.5 frames per second (half rate 1.75) three frames were read and the
\* detector ran on each of them, frame 1 included.
C17_Witness ==
    /\ FaceTracking
    /\ fps = <<7, 2>>
    /\ cap_pos = 3
    /\ detect_frames = {0, 1, 2}

\* C18: at the first detection of a pass that produces a centre, when the
\* group rule does not apply, target_center is the centre of the single
\* largest-area box (clamped as every target is).
C18_FirstDetectionLargest ==
    (FaceTracking /\ first_pick # <<>> /\ first_pick[1] # "group") =>
        /\ first_pick[3] = first_pick[2]
        /\ target_center = clamp(Unit * first_pick[2], HalfWidth(target_width),
                                 Unit * width - HalfWidth(target_width))

\* One face-planner frame whose detection came back without a centre: the
\* run of consecutive missed update points grows by one.
MissStep == pc = "tracking" /\ at_update' /\ none_run' = none_run + 1

\* One face-planner frame whose detection produced a centre.
HitStep == pc = "tracking" /\ cap_pos' # cap_pos /\ at_update' /\ had_center'
           /\ none_run' = 0

\* The accumulated length of the run of misses after the step has reached
\* missing_threshold.
RunReached == none_run' * update_interval >= missing_threshold

C20_Step ==
    /\ (MissStep /\ RunReached) => target_center' = Resolution * width
    /\ (MissStep /\ ~RunReached) => target_center' = target_center
    /\ (pc = "tracking" /\ target_center' # target_center) =>
           (HitStep \/ (MissStep /\ RunReached))

\* C20: target_center is reset to the frame midpoint only at an update frame
\* ending a run of consecutive missed update points whose accumulated length
\* (updateInterval per miss, back to 0 at any successful detection) is at
\* least missing_threshold; a miss whose run is still shorter leaves
\* target_center unchanged, and nothing but a detection or such a miss
\* changes it.
C20_RecentreOnlyAfterThreshold == [][C20_Step]_vars

\* After a detection moved the target off the midpoint, an update frame
\* missed, the run is still below the threshold and the target stayed.
C20_Witness ==
    /\ pc = "tracking"
    /\ at_update /\ none_run >= 1 /\ had_center
    /\ none_run * update_interval < missing_threshold
    /\ target_center # Resolution * width

\* The screen planner's frame loop has been entered.
ScreenPlanned == mode = "screen" /\ ffmpeg_proc # "none"

\* C12: at an update frame where the motion estimate finds no significant
\* motion, smoothed_x is left unchanged; as long as no update has found
\* motion it stays at its initial value 0, and so does the crop offset.
C12_HoldWithoutMotion ==
    ScreenPlanned =>
        /\ (last_motion = <<"still">> => smoothed_x = prev_smoothed_x)
        /\ (~moved => smoothed_x = 0)
        /\ (~moved /\ crop # <<>> => crop[1] = 0)

\* Motion has panned the window to a positive offset and a later update
\* without significant motion held it there.
C12_Witness ==
    /\ ScreenPlanned
    /\ last_motion = <<"still">>
    /\ moved
    /\ smoothed_x > 0
    /\ crop[1] = smoothed_x


\* C13: when the reported frame count is known and non-zero the screen
\* planner reads and writes at most that many frames and then stops, even
\* if the stream holds more; when the count is 0 it stops at the end of the
\* stream.
C13_StopsAtFrameCount ==
    ScreenPlanned =>
        /\ total_frames # 0 =>
               /\ cap_pos <= total_frames
               /\ Len(written) <= total_frames
               /\ frames_written <= total_frames
        /\ (cap = "released" /\ total_frames # 0) =>
               cap_pos = Min2(total_frames, stream_max)
        /\ (cap = "released" /\ total_frames = 0) => cap_pos = stream_max

\* The stream held more frames than the reported count of 3; the planner
\* wrote 3 and finished.
C13_Witness ==
    /\ ScreenPlanned
    /\ total_frames = 3 /\ stream_max > 3
    /\ cap = "released" /\ pc = "done"
    /\ Len(written) = 3

\* C19: when a motion update with target_x leaves smoothed_x where it was
\* (so that every later update with the same target_x does too), the crop
\* offset is within 1 px of target_x.
C19_ConvergesToTarget ==
    (ScreenPlanned /\ last_motion[1] = "at" /\ smoothed_x = prev_smoothed_x) =>
        Abs(crop[1] - ScreenTargetX(last_motion[2], scaled_width, target_width)) <= 1


\* The Mode Selector has returned and main() has chosen the planner.
ModeSelected == pc = "start" /\ mode # "auto"

\* idx is one of the evenly spaced positions over [0, total - 1].
EvenlySpaced(idx, total) ==
    \E i \in 0..(Min2(12, total) - 1) :
        idx = IF total = 1 THEN 0 ELSE (i * (total - 1)) \div (Min2(12, total) - 1)

\* C14: the Mode Selector examines at most 12 frames, evenly spaced over
\* [0, totalFrames - 1] and increasing when the count is known, else the
\* first frames of the stream in order; it selects Face mode if and only if
\* at least one examined frame yields a usable box, otherwise Screen mode.
C14_ModeSelection ==
    /\ Len(sel_examined) <= 12
    /\ \A k \in DOMAIN sel_examined :
           IF source.frame_count > 0
           THEN /\ EvenlySpaced(sel_examined[k], source.frame_count)
                /\ (k > 1 => sel_examined[k - 1] < sel_examined[k])
           ELSE sel_examined[k] = k - 1
    /\ ModeSelected => (mode = "face" <=> sel_usable)
    /\ ModeSelected => (mode = "screen" <=> ~sel_usable)

\* A source reporting MaxTotal frames: twelve frames were examined, the last
\* of them the last frame, only one had a usable box, and Face mode was
\* selected.
C14_Witness ==
    /\ ModeSelected
    /\ mode = "face"
    /\ source.frame_count = MaxTotal
    /\ Len(sel_examined) = 12
    /\ sel_examined[12] = MaxTotal - 1
    /\ Len(centers) = 1


\* The crop window <<x, y, w, h>> is horizontally centred in a frame of
\* width fw within 1 px: its centre x + w / 2 is within 1 of fw / 2.
CentredWithin1(window, fw) == Abs(2 * window[1] + window[3] - fw) <= 2

\* Scenario A with output width ow, the source being one the Mode Selector
\* can open: every frame written is ow x 1080, a pass that finishes has
\* written exactly 90 frames, Face mode is chosen, and the crop window is
\* centred within 1 px on every frame.
ScenarioA(ow) ==
    (scenario = "A" /\ sel_res # "none") =>
        /\ ModeSelected => mode = "face"
        /\ \A k \in DOMAIN written : written[k] = <<k - 1, ow, 1080>>
        /\ pc = "done" => Len(written) = 90
        /\ crop # <<>> => CentredWithin1(crop, 1920)

\* C15: in end-to-end scenario A (1920x1080, 30 fps, 90 frames, the
\* detector always returning one centred box of score 0.9 and a fifth of
\* the frame's area) the Mode Selector picks Face mode, the output is
\* 606x1080 (607 rounded down to even) with exactly 90 frames, and the crop
\* window is horizontally centred within 1 px on every frame.
C15_ScenarioA606 == ScenarioA(606)

\* C15 as stated: the output is 607x1080.
C15_ScenarioA607 == ScenarioA(607)

\* Scenario A ran to its end: Face mode, 90 frames of 606x1080, the window
\* at offset 657 = (1920 - 606) / 2.
C15_Witness ==
    /\ scenario = "A" /\ sel_res = "released" /\ mode = "face" /\ pc = "done"
    /\ Len(written) = 90
    /\ written[90] = <<89, 606, 1080>>
    /\ crop = <<657, 0, 606, 1080>>

\* C16: in end-to-end scenario B (the same source, the detector never
\* returning a box, no motion throughout) the Mode Selector picks Screen
\* mode and the crop window stays at horizontal offset 0, the left edge of
\* the scaled frame, on every frame of the run.
C16_ScenarioBLeftEdge ==
    scenario = "B" =>
        /\ ModeSelected => mode = "screen"
        /\ crop # <<>> => crop[1] = 0

\* C16 as stated: the crop window stays centred within the scaled frame.
C16_ScenarioBCentred ==
    scenario = "B" =>
        /\ ModeSelected => mode = "screen"
        /\ crop # <<>> => CentredWithin1(crop, scaled_width)

\* Scenario B ran to its end: Screen mode, 90 frames, the 606-wide window at
\* offset 0 of the 904-wide scaled frame.
C16_Witness ==
    /\ scenario = "B" /\ mode = "screen" /\ pc = "done"
    /\ Len(written) = 90
    /\ scaled_width = 904
    /\ crop = <<0, 0, 606, 1080>>

====
